---- MODULE Spec2Model ----
(***************************************************************************)
(* "Catch the Block" (project_templete/main.cpp): a paddle catches blocks  *)
(* falling from the top of the screen.  The model follows main(): the      *)
(* start-up sequence with its failure paths, the game loop (event polling, *)
(* keyboard sampling, game logic) and the final cleanup.                   *)
(*                                                                         *)
(* The SDL library is the environment.  Its documented behaviour is        *)
(* modelled where the program reads it: the event queue filled by          *)
(* SDL_PumpEvents (called by every SDL_PollEvent), the cached mouse        *)
(* position returned by SDL_GetMouseState, SDL_PointInRect and             *)
(* SDL_HasIntersection.                                                    *)
(***************************************************************************)
EXTENDS Integers, Sequences, FiniteSets, TLC

(* ---- configuration constants, main.cpp:34-41 ---- *)
SCREEN_WIDTH == 800
SCREEN_HEIGHT == 600
PADDLE_WIDTH == 100
PADDLE_HEIGHT == 20
BLOCK_SIZE == 30
PADDLE_SPEED == 10
BLOCK_SPEED == 5
MAX_MISTAKES == 5

(* ---- bounds of the model ---- *)
\* events that may wait in SDL's queue at one time
MaxQueue == 2
\* frames of one run in which an arrow key is held down
MaxKeyFrames == 1

(* ---- inputs ---- *)
\* pointer positions the environment moves the mouse to: one inside the play
\* button (its x - 50 differs from the paddle's initial x) and one near each
\* side of the screen
MousePoints == { <<20, 500>>, <<390, 300>>, <<780, 500>> }
\* values returned by rand()
RandVals == { 380, 1090 }
\* (left held, right held) as read from SDL_GetKeyboardState
KeyStates == { <<FALSE, FALSE>>, <<TRUE, FALSE>>, <<FALSE, TRUE>>, <<TRUE, TRUE>> }

VARIABLES
    pc,            \* position in main(): "start", "loop", "poll", "cleanup", "done"
    currentState,  \* GameState
    mistakes,
    player,        \* player.rect
    block,         \* block.rect
    isRunning,
    queue,         \* SDL's event queue
    mouse,         \* SDL's cached mouse position (SDL_GetMouseState)
    music,         \* TRUE while the music track is playing
    out,           \* lines written to std::cout by the last frame's game logic
    keyFrames,     \* frames so far in which an arrow key was held
    motionInFrame, \* a pointer-motion event was polled in the current frame
    acquired,      \* resources acquired so far
    released,      \* resource -> number of times it was released
    exitCode       \* return value of main(), -1 while running

vars == << pc, currentState, mistakes, player, block, isRunning, queue, mouse,
           music, out, keyFrames, motionInFrame, acquired, released, exitCode >>

gameVars == << currentState, mistakes, player, block, music >>

(* ---- rectangles ---- *)
Rect(x, y, w, h) == [x |-> x, y |-> y, w |-> w, h |-> h]

\* main.cpp:172-176
playButtonRect == Rect((SCREEN_WIDTH - 250) \div 2, (SCREEN_HEIGHT - 100) \div 2, 250, 100)

\* SDL_PointInRect(p, r): left/top edges inclusive, right/bottom exclusive
SDL_PointInRect(p, r) ==
    /\ p[1] >= r.x /\ p[1] < r.x + r.w
    /\ p[2] >= r.y /\ p[2] < r.y + r.h

SDL_RectEmpty(r) == r.w <= 0 \/ r.h <= 0

Max(a, b) == IF a > b THEN a ELSE b
Min(a, b) == IF a < b THEN a ELSE b

\* mutant of SpanMiss: spans that only touch count as sharing a point
SpanMissTouching(amin, alen, bmin, blen) ==
    Min(amin + alen, bmin + blen) < Max(amin, bmin)

\* one axis of SDL_HasIntersection: the spans [amin, amin+alen) and
\* [bmin, bmin+blen) share a point
SpanMiss(amin, alen, bmin, blen) ==
    Min(amin + alen, bmin + blen) <= Max(amin, bmin)

\* SDL_HasIntersection(A, B) as SDL computes it
SDL_HasIntersection(A, B) ==
    IF SDL_RectEmpty(A) \/ SDL_RectEmpty(B) THEN FALSE
    ELSE IF SpanMiss(A.x, A.w, B.x, B.w) THEN FALSE
    ELSE IF SpanMiss(A.y, A.h, B.y, B.h) THEN FALSE
    ELSE TRUE

(* ---- resources ---- *)
Resources == { "SDL", "SDL_image", "audio", "window", "renderer",
               "playButtonTexture", "gameOverTexture", "music" }
Textures == { "playButtonTexture", "gameOverTexture" }

\* what one release call of main.cpp releases, given what is live.
\* SDL_Quit shuts every subsystem down: it closes the audio device that
\* Mix_OpenAudio opened, if it is still open, and destroys a window that is
\* still there.  Mix_Quit unloads the decoders of Mix_Init (never called here).
\* SDL_DestroyRenderer also frees the textures still attached to the renderer.
Releases(call, live) ==
    CASE call = "SDL_Quit" -> {"SDL"} \cup ({"audio", "window"} \cap live)
      [] call = "IMG_Quit" -> {"SDL_image"}
      [] call = "Mix_Quit" -> {}
      [] call = "Mix_CloseAudio" -> {"audio"}
      [] call = "SDL_DestroyWindow" -> {"window"}
      [] call = "SDL_DestroyRenderer" -> {"renderer"} \cup (Textures \cap live)
      [] call = "SDL_DestroyTexture(playButtonTexture)" -> {"playButtonTexture"}
      [] call = "SDL_DestroyTexture(gameOverTexture)" -> {"gameOverTexture"}
      [] call = "Mix_FreeMusic" -> {"music"}

RECURSIVE ReleaseAll(_, _, _)
\* the release counts after the calls of the sequence, made in order
ReleaseAll(calls, acq, rel) ==
    IF calls = << >> THEN rel
    ELSE LET live == { r \in acq : rel[r] = 0 }
             now == Releases(Head(calls), live)
         IN ReleaseAll(Tail(calls), acq,
                       [r \in Resources |-> IF r \in now THEN rel[r] + 1 ELSE rel[r]])

\* the start-up steps of main() in order, main.cpp:94-191
StartupSteps == << "SDL_Init", "IMG_Init", "Mix_OpenAudio", "SDL_CreateWindow",
                   "SDL_CreateRenderer", "loadTexture", "Mix_LoadMUS" >>

\* what the step acquires when it succeeds
Acquires(step) ==
    CASE step = "SDL_Init" -> {"SDL"}
      [] step = "IMG_Init" -> {"SDL_image"}
      [] step = "Mix_OpenAudio" -> {"audio"}
      [] step = "SDL_CreateWindow" -> {"window"}
      [] step = "SDL_CreateRenderer" -> {"renderer"}
      [] step = "loadTexture" -> Textures
      [] step = "Mix_LoadMUS" -> {"music"}

\* mutant of FailureCleanup: a failed Mix_LoadMUS returns at once, as a failed
\* SDL_Init does
FailureCleanupEarlyReturn(step) ==
    CASE step = "SDL_Init" -> << >>
      [] step = "IMG_Init" -> << "SDL_Quit" >>
      [] step = "Mix_OpenAudio" -> << "IMG_Quit", "SDL_Quit" >>
      [] step = "SDL_CreateWindow" -> << "Mix_Quit", "IMG_Quit", "SDL_Quit" >>
      [] step = "SDL_CreateRenderer" ->
            << "SDL_DestroyWindow", "Mix_Quit", "IMG_Quit", "SDL_Quit" >>
      [] step = "loadTexture" ->
            << "SDL_DestroyRenderer", "SDL_DestroyWindow", "Mix_Quit", "IMG_Quit",
               "SDL_Quit" >>
      [] step = "Mix_LoadMUS" -> << >>

\* the release calls main() makes when the step fails
FailureCleanup(step) ==
    CASE step = "SDL_Init" -> << >>
      [] step = "IMG_Init" -> << "SDL_Quit" >>
      [] step = "Mix_OpenAudio" -> << "IMG_Quit", "SDL_Quit" >>
      [] step = "SDL_CreateWindow" -> << "Mix_Quit", "IMG_Quit", "SDL_Quit" >>
      [] step = "SDL_CreateRenderer" ->
            << "SDL_DestroyWindow", "Mix_Quit", "IMG_Quit", "SDL_Quit" >>
      [] step = "loadTexture" ->
            << "SDL_DestroyRenderer", "SDL_DestroyWindow", "Mix_Quit", "IMG_Quit",
               "SDL_Quit" >>
      [] step = "Mix_LoadMUS" ->
            << "SDL_DestroyTexture(playButtonTexture)",
               "SDL_DestroyTexture(gameOverTexture)", "SDL_DestroyRenderer",
               "SDL_DestroyWindow", "Mix_Quit", "IMG_Quit", "SDL_Quit" >>

\* the release calls of the final cleanup, main.cpp:335-351
FinalCleanup ==
    << "Mix_FreeMusic", "SDL_DestroyTexture(playButtonTexture)",
       "SDL_DestroyTexture(gameOverTexture)", "SDL_DestroyRenderer",
       "SDL_DestroyWindow", "Mix_Quit", "IMG_Quit", "SDL_Quit" >>

RECURSIVE AcquiredBefore(_)
\* the resources acquired by the first n start-up steps
AcquiredBefore(n) ==
    IF n = 0 THEN {} ELSE AcquiredBefore(n - 1) \cup Acquires(StartupSteps[n])

(* ---- events ---- *)
Event(type, sym, x, y) == [type |-> type, sym |-> sym, x |-> x, y |-> y]

(* ---- the program ---- *)
NoneReleased == [r \in Resources |-> 0]

Init ==
    /\ pc = "start"
    /\ currentState = "MENU"
    /\ mistakes = 0
    /\ player = Rect((SCREEN_WIDTH - PADDLE_WIDTH) \div 2,
                     SCREEN_HEIGHT - PADDLE_HEIGHT - 10, PADDLE_WIDTH, PADDLE_HEIGHT)
    /\ block = Rect(0, 0, BLOCK_SIZE, BLOCK_SIZE)
    /\ isRunning = TRUE
    /\ queue = << >>
    /\ mouse = << 0, 0 >>
    /\ music = FALSE
    /\ out = << >>
    /\ keyFrames = 0
    /\ motionInFrame = FALSE
    /\ acquired = {}
    /\ released = NoneReleased
    /\ exitCode = -1

\* rand() % (SCREEN_WIDTH - BLOCK_SIZE)
RandomX(r) == r % (SCREEN_WIDTH - BLOCK_SIZE)

\* main.cpp:91-191, a start-up step fails: release and return 1
StartupFails ==
    /\ pc = "start"
    /\ \E n \in 1..Len(StartupSteps), part \in SUBSET Textures :
          \* loadTexture is called twice; either call may fail
          /\ part # Textures
          /\ (StartupSteps[n] # "loadTexture" => part = {})
          /\ acquired' = AcquiredBefore(n - 1) \cup part
          /\ released' = ReleaseAll(FailureCleanup(StartupSteps[n]), acquired', released)
    /\ exitCode' = 1
    /\ pc' = "done"
    /\ UNCHANGED << currentState, mistakes, player, block, isRunning, queue, mouse,
                    music, out, keyFrames, motionInFrame >>

\* main.cpp:91-209, every start-up step succeeds; paddle and first block created
StartupOk ==
    /\ pc = "start"
    /\ acquired' = AcquiredBefore(Len(StartupSteps))
    /\ \E r \in RandVals : block' = [block EXCEPT !.x = RandomX(r), !.y = 0]
    /\ pc' = "loop"
    /\ UNCHANGED << currentState, mistakes, player, isRunning, queue, mouse, music,
                    out, keyFrames, motionInFrame, released, exitCode >>

\* main.cpp:212, while (isRunning)
LoopCheck ==
    /\ pc = "loop"
    /\ pc' = IF isRunning THEN "poll" ELSE "cleanup"
    /\ UNCHANGED << currentState, mistakes, player, block, isRunning, queue, mouse,
                    music, out, keyFrames, motionInFrame, acquired, released, exitCode >>

\* SDL_PumpEvents inside SDL_PollEvent: the window system delivers an event.
\* A motion event moves the cached mouse position (SDL drops motion events that
\* do not change it); a button event carries the cached position.
Pump ==
    /\ pc = "poll"
    /\ Len(queue) < MaxQueue
    /\ \/ /\ queue' = Append(queue, Event("SDL_QUIT", "", 0, 0))
          /\ mouse' = mouse
       \/ /\ queue' = Append(queue, Event("SDL_KEYDOWN", "SDLK_ESCAPE", 0, 0))
          /\ mouse' = mouse
       \/ /\ queue' = Append(queue, Event("SDL_MOUSEBUTTONDOWN", "", mouse[1], mouse[2]))
          /\ mouse' = mouse
       \/ \E p \in MousePoints \ { mouse } :
            /\ queue' = Append(queue, Event("SDL_MOUSEMOTION", "", p[1], p[2]))
            /\ mouse' = p
    /\ UNCHANGED << pc, currentState, mistakes, player, block, isRunning, music, out,
                    keyFrames, motionInFrame, acquired, released, exitCode >>

\* mutant of QuitRequested: the Escape key is not handled
QuitOnCloseOnly(event) == event.type = "SDL_QUIT"

\* main.cpp:217-227
QuitRequested(event) ==
    \/ event.type = "SDL_QUIT"
    \/ event.type = "SDL_KEYDOWN" /\ event.sym = "SDLK_ESCAPE"

\* mutant of ClickStartsGame: the click is not restricted to the menu
ClickInAnyState(event, state, mouseState) ==
    /\ event.type = "SDL_MOUSEBUTTONDOWN"
    /\ SDL_PointInRect(mouseState, playButtonRect)

\* main.cpp:229-243: the click starts the game when SDL_GetMouseState is in the button
ClickStartsGame(event, state, mouseState) ==
    /\ event.type = "SDL_MOUSEBUTTONDOWN"
    /\ state = "MENU"
    /\ SDL_PointInRect(mouseState, playButtonRect)

\* main.cpp:245-251: the x a motion event gives the paddle
MotionX(event, rect) == event.x - (rect.w \div 2)

\* mutant of HandleEvent: pointer motion moves the paddle in every game state
HandleEventMovesAlways ==
    /\ pc = "poll"
    /\ queue # << >>
    /\ LET event == Head(queue)
           start == ClickStartsGame(event, currentState, mouse)
       IN /\ isRunning' = IF QuitRequested(event) THEN FALSE ELSE isRunning
          /\ currentState' = IF start THEN "PLAYING" ELSE currentState
          /\ music' = IF start THEN TRUE ELSE music
          /\ player' = IF event.type = "SDL_MOUSEMOTION"
                       THEN [player EXCEPT !.x = MotionX(event, player)]
                       ELSE player
    /\ motionInFrame' = (motionInFrame \/ Head(queue).type = "SDL_MOUSEMOTION")
    /\ queue' = Tail(queue)
    /\ UNCHANGED << pc, mistakes, block, mouse, out, keyFrames, acquired, released,
                    exitCode >>

\* mutant of HandleEvent: the game starts without Mix_PlayMusic
HandleEventNoMusic ==
    /\ pc = "poll"
    /\ queue # << >>
    /\ LET event == Head(queue)
           start == ClickStartsGame(event, currentState, mouse)
           state1 == IF start THEN "PLAYING" ELSE currentState
       IN /\ isRunning' = IF QuitRequested(event) THEN FALSE ELSE isRunning
          /\ currentState' = state1
          /\ music' = music
          /\ player' = IF event.type = "SDL_MOUSEMOTION" /\ state1 = "PLAYING"
                       THEN [player EXCEPT !.x = MotionX(event, player)]
                       ELSE player
    /\ motionInFrame' = (motionInFrame \/ Head(queue).type = "SDL_MOUSEMOTION")
    /\ queue' = Tail(queue)
    /\ UNCHANGED << pc, mistakes, block, mouse, out, keyFrames, acquired, released,
                    exitCode >>

\* main.cpp:215-252, one iteration of the event loop: SDL_PollEvent returned 1
HandleEvent ==
    /\ pc = "poll"
    /\ queue # << >>
    /\ LET event == Head(queue)
           start == ClickStartsGame(event, currentState, mouse)
           state1 == IF start THEN "PLAYING" ELSE currentState
       IN /\ isRunning' = IF QuitRequested(event) THEN FALSE ELSE isRunning
          /\ currentState' = state1
          /\ music' = IF start THEN TRUE ELSE music
          /\ player' = IF event.type = "SDL_MOUSEMOTION" /\ state1 = "PLAYING"
                       THEN [player EXCEPT !.x = MotionX(event, player)]
                       ELSE player
    /\ motionInFrame' = (motionInFrame \/ Head(queue).type = "SDL_MOUSEMOTION")
    /\ queue' = Tail(queue)
    /\ UNCHANGED << pc, mistakes, block, mouse, out, keyFrames, acquired, released,
                    exitCode >>

\* main.cpp:258-265
KeyboardX(x, keys) ==
    LET x1 == IF keys[1] THEN x - PADDLE_SPEED ELSE x
    IN IF keys[2] THEN x1 + PADDLE_SPEED ELSE x1

\* mutant of ClampX: the right-hand bound is not enforced
ClampLeftOnly(x, w) == IF x < 0 THEN 0 ELSE x

\* main.cpp:272-279
ClampX(x, w) ==
    LET x1 == IF x < 0 THEN 0 ELSE x
    IN IF x1 > SCREEN_WIDTH - w THEN SCREEN_WIDTH - w ELSE x1

\* mutant of Fall: the block falls at the paddle's speed
FallFast(rect) == [rect EXCEPT !.y = rect.y + PADDLE_SPEED]

\* main.cpp:282
Fall(rect) == [rect EXCEPT !.y = rect.y + BLOCK_SPEED]

\* mutant of Caught: only a block wholly above the paddle's width is caught
CaughtOnlyInside(paddle, rect) ==
    /\ SDL_HasIntersection(paddle, rect)
    /\ paddle.x <= rect.x /\ rect.x + rect.w <= paddle.x + paddle.w

\* mutant of Caught: rectangles whose edges touch count as a catch
CaughtOrTouching(paddle, rect) ==
    /\ paddle.x <= rect.x + rect.w /\ rect.x <= paddle.x + paddle.w
    /\ paddle.y <= rect.y + rect.h /\ rect.y <= paddle.y + paddle.h

\* main.cpp:285
Caught(paddle, rect) == SDL_HasIntersection(paddle, rect)

\* mutant of Missed: the block is missed when its bottom edge leaves the screen
MissedBeforeEdge(rect) == rect.y + rect.h > SCREEN_HEIGHT

\* mutant of Missed: the block is missed only once it has left the screen
MissedBelowBlock(rect) == rect.y > SCREEN_HEIGHT + BLOCK_SIZE

\* mutant of Missed: a block at the bottom edge already counts as missed
MissedAtEdge(rect) == rect.y >= SCREEN_HEIGHT

\* main.cpp:293
Missed(rect) == rect.y > SCREEN_HEIGHT

\* mutant of Respawn: the random x is not reduced modulo the spawn range
RespawnUnbounded(rect, r) == [rect EXCEPT !.y = 0, !.x = r]

\* main.cpp:288-289 and 297-298
Respawn(rect, r) == [rect EXCEPT !.y = 0, !.x = RandomX(r)]

\* mutant of GameIsOver: the game ends one mistake early
GameIsOverEarly(m) == m >= MAX_MISTAKES - 1

\* mutant of GameIsOver: the game ends one mistake late
GameIsOverLate(m) == m > MAX_MISTAKES

\* main.cpp:300
GameIsOver(m) == m >= MAX_MISTAKES

\* main.cpp:254-332: SDL_PollEvent returned 0; keyboard, game logic, rendering
Update ==
    /\ pc = "poll"
    /\ queue = << >>
    /\ \E keys \in KeyStates, r1 \in RandVals, r2 \in RandVals :
         IF currentState = "PLAYING"
         THEN LET held == keys[1] \/ keys[2]
                  paddle == [player EXCEPT !.x = ClampX(KeyboardX(player.x, keys), player.w)]
                  fallen == Fall(block)
                  caught == Caught(paddle, fallen)
                  block1 == IF caught THEN Respawn(fallen, r1) ELSE fallen
                  missed == Missed(block1)
                  m1 == IF missed THEN mistakes + 1 ELSE mistakes
                  over == missed /\ GameIsOver(m1)
              IN /\ held => keyFrames < MaxKeyFrames
                 /\ keyFrames' = IF held THEN keyFrames + 1 ELSE keyFrames
                 /\ player' = paddle
                 /\ block' = IF missed THEN Respawn(block1, r2) ELSE block1
                 /\ mistakes' = m1
                 /\ currentState' = IF over THEN "GAME_OVER" ELSE currentState
                 /\ music' = IF over THEN FALSE ELSE music
                 /\ out' = (IF caught THEN << "Caught it!" >> ELSE << >>)
                           \o (IF missed THEN << "Missed!" >> ELSE << >>)
                           \o (IF over THEN << "GAME OVER!" >> ELSE << >>)
         ELSE /\ out' = << >>
              /\ UNCHANGED << currentState, mistakes, player, block, music, keyFrames >>
    /\ motionInFrame' = FALSE
    /\ pc' = "loop"
    /\ UNCHANGED << isRunning, queue, mouse, acquired, released, exitCode >>

\* main.cpp:335-353; Mix_FreeMusic halts the track if it is still playing
Cleanup ==
    /\ pc = "cleanup"
    /\ released' = ReleaseAll(FinalCleanup, acquired, released)
    /\ music' = FALSE
    /\ exitCode' = 0
    /\ pc' = "done"
    /\ UNCHANGED << currentState, mistakes, player, block, isRunning, queue, mouse,
                    out, keyFrames, motionInFrame, acquired >>

Next ==
    \/ StartupFails
    \/ StartupOk
    \/ LoopCheck
    \/ Pump
    \/ HandleEvent
    \/ Update
    \/ Cleanup

Spec == Init /\ [][Next]_vars

(***************************************************************************)
(* Properties                                                              *)
(***************************************************************************)
Range(seq) == { seq[i] : i \in 1..Len(seq) }

\* a step that handles one polled event (SDL_PollEvent returned 1)
HandleStep == pc = "poll" /\ queue # << >> /\ queue' = Tail(queue)

\* a step that runs the rest of a frame (SDL_PollEvent returned 0)
FrameStep == pc = "poll" /\ pc' = "loop"

\* the states between two frames and after the loop
FrameEnd == pc \in { "loop", "cleanup", "done" }

\* x1<x2+w2 /\ x2<x1+w1 /\ y1<y2+h2 /\ y2<y1+h1
StrictOverlap(R1, R2) ==
    /\ R1.x < R2.x + R2.w /\ R2.x < R1.x + R1.w
    /\ R1.y < R2.y + R2.h /\ R2.y < R1.y + R1.h

\* the rectangles share an edge point but no inner point
EdgesTouch(R1, R2) ==
    /\ R1.x <= R2.x + R2.w /\ R2.x <= R1.x + R1.w
    /\ R1.y <= R2.y + R2.h /\ R2.y <= R1.y + R1.h
    /\ ~StrictOverlap(R1, R2)

\* the block after it has advanced in this frame
Advanced == [block EXCEPT !.y = block.y + 5]

\* C1: the state goes from Menu to Playing exactly in the steps that poll a
\* pointer-down event in Menu whose own position is inside the play button
\* (275 <= x < 525, 250 <= y < 350).
C1_ClickPositionDecides ==
    [][ (currentState = "MENU" /\ currentState' = "PLAYING")
        <=> ( /\ HandleStep
              /\ currentState = "MENU"
              /\ Head(queue).type = "SDL_MOUSEBUTTONDOWN"
              /\ Head(queue).x >= 275 /\ Head(queue).x < 525
              /\ Head(queue).y >= 250 /\ Head(queue).y < 350 ) ]_vars

\* C2: Playing -> GameOver happens exactly in the frame whose miss raises
\* mistakes to 5, the music is halted in that frame, and in every state
\* Playing implies mistakes < 5 and GameOver implies mistakes = 5.
C2_GameOverAtFifthMistake ==
    /\ [](currentState = "PLAYING" => mistakes < 5)
    /\ [](currentState = "GAME_OVER" => mistakes = 5)
    /\ [][ /\ (currentState = "PLAYING" /\ currentState' = "GAME_OVER")
              <=> (FrameStep /\ currentState = "PLAYING"
                   /\ mistakes' = mistakes + 1 /\ mistakes' = 5)
           /\ (currentState = "PLAYING" /\ currentState' = "GAME_OVER")
              => (music /\ ~music') ]_vars

C2_Witness ==
    /\ currentState = "GAME_OVER" /\ mistakes = 5 /\ ~music
    /\ out = << "Missed!", "GAME OVER!" >>

\* C3: 0 <= mistakes <= 5 in every state, and no step decreases or resets
\* the mistake counter.
C3_MistakesBoundedMonotone ==
    /\ [](mistakes >= 0 /\ mistakes <= 5)
    /\ [][mistakes' >= mistakes]_vars

C3_Witness == mistakes = 3 /\ currentState = "PLAYING" /\ out = << "Missed!" >>

\* C4: at the end of every frame, in every game state,
\* 0 <= paddle.x <= 700, so the paddle lies fully on the screen.
C4_PaddleOnScreen ==
    FrameEnd => /\ player.x >= 0 /\ player.x <= 700
                /\ player.x + player.w <= 800

\* the pointer is at x = 780 (motion put the paddle at 730) and the frame has
\* ended with the paddle at 700
C4_Witness ==
    /\ pc = "loop" /\ currentState = "PLAYING"
    /\ mouse = << 780, 500 >> /\ player.x = 700

\* C5: in a Playing frame the block is caught iff the clamped paddle R1 and
\* the advanced block R2 satisfy x1<x2+w2, x2<x1+w1, y1<y2+h2, y2<y1+h1, and
\* the test gives the same result with R1 and R2 swapped.
C5_CatchIsStrictOverlap ==
    [][ (FrameStep /\ currentState = "PLAYING")
        => /\ ("Caught it!" \in Range(out')) <=> StrictOverlap(player', Advanced)
           /\ (block'.y = 0) <=> (StrictOverlap(player', Advanced) \/ Advanced.y > 600)
           /\ SDL_HasIntersection(player', Advanced)
                = SDL_HasIntersection(Advanced, player') ]_vars

C5_Witness ==
    /\ pc = "loop" /\ currentState = "PLAYING"
    /\ out = << "Caught it!" >> /\ block.y = 0

\* C6 as claimed: a block whose edge exactly touches a paddle edge after
\* advancing is caught in that frame and reset to y = 0.
C6_TouchingIsCaught ==
    [][ (FrameStep /\ currentState = "PLAYING" /\ EdgesTouch(player', Advanced))
        => ("Caught it!" \in Range(out') /\ block'.y = 0) ]_vars

\* C6 amended: a block whose edge exactly touches a paddle edge after
\* advancing is not caught in that frame: it keeps its advanced position and
\* nothing is printed; a catch needs overlap of positive width and height.
C6_TouchingIsNotCaught ==
    [][ (FrameStep /\ currentState = "PLAYING" /\ EdgesTouch(player', Advanced))
        => (out' = << >> /\ block' = Advanced /\ mistakes' = mistakes) ]_vars

\* a frame has ended with the block's bottom edge on the paddle's top edge
\* (block.y + 30 = 570) and the block still falling
C6_Witness ==
    /\ pc = "loop" /\ currentState = "PLAYING" /\ out = << >>
    /\ block.y + block.h = player.y
    /\ player.x < block.x + block.w /\ block.x < player.x + player.w

\* C7: mistakes increases, by exactly 1, in the frames where the state is
\* Playing and the block's y after advancing and after the catch check is
\* > 600, and then the block respawns at y = 0 with x in [0,770); in every
\* other step (a block at y = 600 included) mistakes is unchanged.
C7_MissIffBelowScreen ==
    [][ LET yAfter == IF "Caught it!" \in Range(out') THEN 0 ELSE block.y + 5
            miss == FrameStep /\ currentState = "PLAYING" /\ yAfter > 600
        IN /\ miss => /\ mistakes' = mistakes + 1
                      /\ block'.y = 0 /\ block'.x >= 0 /\ block'.x < 770
           /\ ~miss => mistakes' = mistakes ]_vars

C7_Witness ==
    /\ pc = "loop" /\ currentState = "PLAYING"
    /\ out = << "Missed!" >> /\ mistakes = 1 /\ block.y = 0

\* C8: in each game state, polling a window-close event or an Escape key-down
\* clears isRunning for good; the next loop check then leaves the loop without
\* starting a frame, and the program cleans up and returns 0.
C8_QuitEndsLoop ==
    /\ [][ /\ ( /\ HandleStep
                /\ \/ Head(queue).type = "SDL_QUIT"
                   \/ Head(queue).type = "SDL_KEYDOWN" /\ Head(queue).sym = "SDLK_ESCAPE" )
              => ~isRunning'
           /\ ~isRunning => ~isRunning'
           /\ (pc = "loop" /\ ~isRunning) => pc' = "cleanup"
           /\ pc = "cleanup" => (pc' = "done" /\ exitCode' = 0) ]_vars
    /\ []((pc = "done" /\ ~isRunning) => exitCode = 0)

C8_Witness ==
    /\ pc = "done" /\ exitCode = 0 /\ ~isRunning
    /\ currentState = "GAME_OVER"

\* C9: once a window-close event or Escape key-down has been
\* polled, nothing changes the game state, paddle, block, mistakes or music
\* before the loop ends.
C9_ExitIsImmediate ==
    [][ (~isRunning /\ pc # "cleanup") => UNCHANGED gameVars ]_vars

\* C10: when a texture or the music track fails to load, main() returns a
\* non-zero status and has released every resource it acquired (SDL,
\* SDL_image, the audio device, window, renderer, a texture that did load)
\* exactly once, and nothing it did not acquire.
C10_FailureReleasesAll ==
    (pc = "done" /\ "renderer" \in acquired /\ "music" \notin acquired)
    => /\ exitCode > 0
       /\ \A r \in Resources : released[r] = (IF r \in acquired THEN 1 ELSE 0)

\* game_over.png failed to load after play_button.png had loaded: main() has
\* returned 1, the loaded texture went with the renderer, the audio device
\* with SDL_Quit
C10_Witness ==
    /\ pc = "done" /\ exitCode = 1
    /\ "playButtonTexture" \in acquired /\ "gameOverTexture" \notin acquired
    /\ released["playButtonTexture"] = 1 /\ released["audio"] = 1
    /\ released["gameOverTexture"] = 0

\* C11: the paddle, the block and the mistake counter change only while the
\* state is Playing: a step that ends in Menu or starts in GameOver leaves them
\* unchanged (the first block's x is drawn at start-up), and every Menu state
\* has mistakes = 0, the paddle at (350,570) and block.y = 0.
C11_UpdateOnlyWhilePlaying ==
    /\ [](currentState = "MENU"
          => (mistakes = 0 /\ player.x = 350 /\ player.y = 570 /\ block.y = 0))
    /\ [][ (currentState' = "MENU" \/ currentState = "GAME_OVER")
           => /\ UNCHANGED << player, mistakes >>
              /\ pc # "start" => UNCHANGED block ]_vars

\* a frame has ended in Menu after the pointer moved to x = 780
C11_Witness ==
    /\ pc = "loop" /\ currentState = "MENU" /\ queue = << >>
    /\ mouse = << 780, 500 >> /\ player.x = 350

\* C12: in a Playing frame without catch and miss block.y grows by exactly 5
\* and block.x is unchanged; block.y changes in no other step and in no other
\* way than that or a reset to 0 by a catch or a miss.
C12_BlockFallsBySpeed ==
    [][ /\ (FrameStep /\ currentState = "PLAYING" /\ out' = << >>)
           => (block'.y = block.y + 5 /\ block'.x = block.x)
        /\ block'.y # block.y
           => /\ FrameStep /\ currentState = "PLAYING"
              /\ \/ block'.y = block.y + 5 /\ out' = << >>
                 \/ block'.y = 0 /\ out' # << >> ]_vars

C12_Witness ==
    /\ pc = "loop" /\ currentState = "PLAYING" /\ out = << >> /\ block.y = 300

\* C13: in a Playing frame where the clamped paddle and the advanced block
\* intersect, the block is reset to y = 0 with an x in [0,770) and neither the
\* mistake counter nor the game state changes.
C13_CatchResetsBlockOnly ==
    [][ (FrameStep /\ currentState = "PLAYING" /\ StrictOverlap(player', Advanced))
        => /\ block'.y = 0 /\ block'.x >= 0 /\ block'.x < 770
           /\ mistakes' = mistakes /\ currentState' = "PLAYING"
           /\ out' = << "Caught it!" >> ]_vars

\* the paddle of the scenario, x = 350, has caught a block after two misses
C13_Witness ==
    /\ pc = "loop" /\ currentState = "PLAYING" /\ out = << "Caught it!" >>
    /\ player.x = 350 /\ block.y = 0 /\ mistakes = 2

\* clamp(x - 10*[left held] + 10*[right held], 0, 700)
ClampedOffset(x, keys) ==
    LET moved == x - (IF keys[1] THEN 10 ELSE 0) + (IF keys[2] THEN 10 ELSE 0)
    IN IF moved < 0 THEN 0 ELSE IF moved > 700 THEN 700 ELSE moved

\* C14: a frame whose update runs in Playing leaves the paddle at
\* clamp(base - 10*[left held] + 10*[right held], 0, 700), where base is
\* mx - 50 for the last pointer-motion event (x = mx) polled in the frame and
\* the previous paddle x when the frame polled none; both keys held give the
\* clamp of base itself.  (When the queue is drained the pointer's cached x is
\* the x of the last motion event polled.)
C14_KeyboardAddsToPointer ==
    /\ []((pc = "poll" /\ queue = << >>)
          => \A keys \in KeyStates :
               /\ ClampX(KeyboardX(player.x, keys), player.w)
                    = ClampedOffset(player.x, keys)
               /\ keys[1] = keys[2]
                  => ClampX(KeyboardX(player.x, keys), player.w)
                       = ClampedOffset(player.x, << FALSE, FALSE >>))
    /\ [][ (FrameStep /\ currentState = "PLAYING")
           => LET base == IF motionInFrame THEN mouse[1] - 50 ELSE player.x
              IN /\ \E keys \in KeyStates : player'.x = ClampedOffset(base, keys)
                 /\ keyFrames' = keyFrames
                    => player'.x = ClampedOffset(base, << FALSE, FALSE >>) ]_vars

\* C15: the game state only moves Menu -> Playing and Playing -> GameOver; no
\* step goes Playing -> Menu, GameOver -> Playing, GameOver -> Menu or
\* Menu -> GameOver, so GameOver is never left, and polling a pointer-down
\* with the pointer inside the play button in Playing or GameOver changes
\* neither state, mistakes, paddle, block nor music.
C15_StateMovesForward ==
    [][ /\ currentState' # currentState
           => \/ currentState = "MENU" /\ currentState' = "PLAYING"
              \/ currentState = "PLAYING" /\ currentState' = "GAME_OVER"
        /\ currentState = "GAME_OVER" => currentState' = "GAME_OVER"
        /\ ( /\ HandleStep /\ Head(queue).type = "SDL_MOUSEBUTTONDOWN"
             /\ currentState # "MENU" )
           => UNCHANGED gameVars ]_vars

\* the game has ended and the next event to be polled is a pointer-down inside
\* the play button
C15_Witness ==
    /\ currentState = "GAME_OVER" /\ pc = "poll" /\ isRunning
    /\ mouse = << 390, 300 >>
    /\ queue = << Event("SDL_MOUSEBUTTONDOWN", "", 390, 300) >>

\* C16: at the end of every frame, and at every point of the main loop, the
\* music track is playing iff the state is Playing; a step of the loop starts
\* the music only together with Menu -> Playing and halts it only together
\* with Playing -> GameOver.
C16_MusicFollowsState ==
    /\ [](pc \in { "loop", "poll", "cleanup" } => (music <=> currentState = "PLAYING"))
    /\ [][ (pc = "loop" \/ pc = "poll")
           => ( /\ (~music /\ music')
                   <=> (currentState = "MENU" /\ currentState' = "PLAYING")
                /\ (music /\ ~music')
                   <=> (currentState = "PLAYING" /\ currentState' = "GAME_OVER") ) ]_vars

\* a frame has ended with the music playing, one miss before the game ends
C16_Witness ==
    /\ pc = "loop" /\ currentState = "PLAYING" /\ music /\ mistakes = 4

\* C17: at the end of every frame, and so whenever the block is drawn or a
\* frame starts, 0 <= block.y <= 600 with block.y a multiple of 5 and
\* 0 <= block.x < 770; the block's size stays 30 x 30.
C17_BlockOnScreen ==
    /\ block.y >= 0 /\ block.y <= 600 /\ block.y % 5 = 0
    /\ block.x >= 0 /\ block.x < 770
    /\ block.w = 30 /\ block.h = 30

\* a frame has ended with the block's top edge on the bottom edge of the screen
C17_Witness ==
    /\ pc = "loop" /\ currentState = "PLAYING" /\ block.y = 600 /\ block.x = 320

\* R1.x < R2.x + R2.w and R2.x < R1.x + R1.w
HorizontalOverlap(R1, R2) == R1.x < R2.x + R2.w /\ R2.x < R1.x + R1.w

\* C18: a falling block moves down 5 at a time without skipping a position,
\* and in the frame that brings it level with the paddle (545 <= y <= 585)
\* while the clamped paddle overlaps it horizontally it is caught: it is
\* reset to y = 0 and mistakes is unchanged.  So a block that the paddle
\* overlaps horizontally in every frame of its fall is caught when it reaches
\* y = 545, no block level with or below the paddle is left horizontally
\* overlapping it at the end of a frame, a miss is always of a block that was
\* at y = 600, and no frame has both a catch and a miss.
C18_NoPassThroughPaddle ==
    /\ []((pc = "loop" /\ currentState = "PLAYING" /\ block.y >= 545 /\ block.y <= 585)
          => ~HorizontalOverlap(player, block))
    /\ [][ (FrameStep /\ currentState = "PLAYING")
           => /\ ( /\ HorizontalOverlap(player', Advanced)
                   /\ Advanced.y >= 545 /\ Advanced.y <= 585 )
                 => /\ "Caught it!" \in Range(out')
                    /\ block'.y = 0 /\ mistakes' = mistakes
              /\ (HorizontalOverlap(player', Advanced) /\ block.y < 540)
                 => block' = Advanced
              /\ block'.y # 0 => block' = Advanced
              /\ mistakes' # mistakes => (block.y = 600 /\ "Caught it!" \notin Range(out'))
              /\ ~("Caught it!" \in Range(out') /\ "Missed!" \in Range(out')) ]_vars

\* the block is one step above the paddle's level and a corner of the paddle
\* (x = 340, moved there by the left key) is under it
C18_Witness ==
    /\ pc = "poll" /\ queue = << >> /\ currentState = "PLAYING"
    /\ block.y = 540 /\ block.x = 320 /\ player.x = 340

\* Playing frames still to go until GameOver if no block is caught
FramesLeft == 121 * (5 - mistakes) - block.y \div 5

\* C19: in a Playing frame the block either advances by 5 or its fall ends
\* (y = 0), and a block at y = 600, 120 frames after its spawn, is missed in
\* the next frame, the 121st, and in no earlier one; so a fall ends within 121
\* frames.  The number 121 * (5 - mistakes) - block.y / 5 is 605 when the game
\* starts, drops by exactly 1 in every Playing frame without a catch, changes
\* in no other step, and the state becomes GameOver exactly when it reaches 0:
\* without a catch that is after 5 misses and 605 Playing frames.
C19_FallEndsWithin121Frames ==
    /\ [](currentState = "MENU" => FramesLeft = 605)
    /\ [](currentState = "PLAYING" => (FramesLeft >= 1 /\ FramesLeft <= 605))
    /\ [](currentState = "GAME_OVER" => (FramesLeft = 0 /\ mistakes = 5))
    /\ [][ /\ (FrameStep /\ currentState = "PLAYING")
              => /\ block'.y = block.y + 5 \/ block'.y = 0
                 /\ block.y = 600
                    => /\ "Missed!" \in Range(out')
                       /\ mistakes' = mistakes + 1 /\ block'.y = 0
                 /\ "Missed!" \in Range(out') => block.y = 600
                 /\ "Caught it!" \notin Range(out') => FramesLeft' = FramesLeft - 1
                 /\ "Caught it!" \in Range(out') => FramesLeft' > FramesLeft
                 /\ (currentState' = "GAME_OVER") <=> (FramesLeft' = 0)
           /\ ~(FrameStep /\ currentState = "PLAYING")
              => FramesLeft' = FramesLeft ]_vars

\* the game has ended with the paddle never moved from x = 350
C19_Witness ==
    /\ pc = "loop" /\ currentState = "GAME_OVER" /\ isRunning
    /\ keyFrames = 0 /\ mouse = << 390, 300 >> /\ player.x = 350 /\ block.y = 0

====
